---- MODULE Spec2Model ----
(***************************************************************************)
(* Model of the survey tooling of Ken-2424/code-analysis:                  *)
(*   add-user-id/scripts/add_user_id.py     load_user_mapping,             *)
(*                                          add_user_id_and_sort, main     *)
(*   add-user-id/scripts/query_responses.py get_user_responses             *)
(*   scripts/generate_template.py           generate_template              *)
(*                                                                         *)
(* Text is a sequence of one-character strings, so that str.strip() and    *)
(* the lexicographic order of Python strings are computed, not assumed.    *)
(* A Python dict is a sequence of [k, val] pairs in insertion order.       *)
(***************************************************************************)
EXTENDS Integers, Sequences, FiniteSets

VARIABLES
    pc,        \* position of the running entry point
    data,      \* the raw mapping yaml.safe_load returned (sequence of entries)
    loaded,    \* what load_user_mapping printed, raised or returned
    table,     \* the DataFrame pd.read_csv returned to the entry point
    df,        \* add_user_id_and_sort: the frame with the user number column
    unmapped,  \* add_user_id_and_sort: the rows reported as not mapped
    outfile,   \* the joined CSV file on disk
    exitcode,  \* status passed to sys.exit (-1 while running)
    lookup,    \* what get_user_responses printed and returned
    draft      \* the user_mapping dict generate_template dumps

vars == <<pc, data, loaded, table, df, unmapped, outfile, exitcode, lookup, draft>>

----------------------------------------------------------------------------
(* Text *)

\* The characters of the model in code point order (space < "a" < "b").
Alphabet == <<" ", "a", "b">>

CodePoint(c) == CHOOSE i \in 1..Len(Alphabet) : Alphabet[i] = c

IsSpace(c) == c = " "

RECURSIVE LStrip(_)
LStrip(s) == IF s # <<>> /\ IsSpace(Head(s)) THEN LStrip(Tail(s)) ELSE s

RECURSIVE RStrip(_)
RStrip(s) ==
    IF s # <<>> /\ IsSpace(s[Len(s)]) THEN RStrip(SubSeq(s, 1, Len(s) - 1)) ELSE s

\* str.strip(): leading and trailing whitespace removed, inner whitespace kept.
Strip(s) == RStrip(LStrip(s))

\* s < t for Python strings: the first differing code point decides, a proper
\* prefix is smaller.
RECURSIVE StrLess(_, _)
StrLess(s, t) ==
    IF t = <<>> THEN FALSE
    ELSE IF s = <<>> THEN TRUE
    ELSE IF Head(s) = Head(t) THEN StrLess(Tail(s), Tail(t))
    ELSE CodePoint(Head(s)) < CodePoint(Head(t))

----------------------------------------------------------------------------
(* dict *)

DictKeys(d) == {d[i].k : i \in 1..Len(d)}

DictHas(d, key) == key \in DictKeys(d)

DictGet(d, key) == d[CHOOSE i \in 1..Len(d) : d[i].k = key].val

\* d[key] = val: an existing key keeps its place and takes the new value.
DictSet(d, key, val) ==
    IF DictHas(d, key)
    THEN [i \in 1..Len(d) |-> IF d[i].k = key THEN [k |-> key, val |-> val] ELSE d[i]]
    ELSE Append(d, [k |-> key, val |-> val])

DictValues(d) == [i \in 1..Len(d) |-> d[i].val]

----------------------------------------------------------------------------
(* load_user_mapping *)

\* The fixed upper end of the user_id range.
N == 18

\* An entry of the raw mapping: key, and info = the value under the key.
\* info.dict: isinstance(info, dict).  info.ty: the Python type of
\* info.get('user_id') ("absent" when the dict has no such field, "null" for
\* None); info.v: its numeric value (True is 1, False is 0, 7.0 and '7' are 7).
NotDict == [dict |-> FALSE, ty |-> "absent", v |-> 0]

UserId(ty, v) == [dict |-> TRUE, ty |-> ty, v |-> v]

\* isinstance(user_id, int): bool is a subclass of int.
IsInstanceInt(info) == info.ty \in {"int", "bool"}

\* The reason load_user_mapping rejects an entry for, "" when it accepts it.
EntryError(info) ==
    IF ~info.dict THEN "bad format"
    ELSE IF info.ty \in {"absent", "null"} THEN "user_id not set"
    ELSE IF ~IsInstanceInt(info) THEN "user_id not an integer"
    ELSE IF info.v < 1 \/ info.v > N THEN "user_id out of range"
    ELSE ""

\* The for loop: from entry i on, with the user_mapping and errors so far.
RECURSIVE ValidateLoop(_, _, _, _)
ValidateLoop(raw, i, user_mapping, errors) ==
    IF i > Len(raw) THEN [user_mapping |-> user_mapping, errors |-> errors]
    ELSE LET student_id == Strip(raw[i].key)
             reason == EntryError(raw[i].info)
         IN  IF reason # ""
             THEN ValidateLoop(raw, i + 1, user_mapping,
                               Append(errors, [key |-> student_id, reason |-> reason]))
             ELSE ValidateLoop(raw, i + 1,
                               DictSet(user_mapping, student_id,
                                       [ty |-> raw[i].info.ty, v |-> raw[i].info.v]),
                               errors)

\* user_ids.count(uid): == on numbers, so True counts as 1.
Count(user_ids, uid) == Cardinality({i \in 1..Len(user_ids) : user_ids[i].v = uid})

Duplicates(user_ids) ==
    {user_ids[i].v : i \in {j \in 1..Len(user_ids) : Count(user_ids, user_ids[j].v) > 1}}

\* [sid for sid, u in user_mapping.items() if u == uid]
Students(user_mapping, uid) ==
    SelectSeq(user_mapping, LAMBDA e : e.val.v = uid)

MissingIds(user_ids) == (1..N) \ {user_ids[i].v : i \in 1..Len(user_ids)}

NoResult ==
    [status |-> "none", errors |-> <<>>, duplicates |-> {}, warned |-> FALSE,
     missing |-> {}, user_mapping |-> <<>>]

\* What load_user_mapping does on the raw mapping: status "empty", "invalid"
\* or "duplicate" when it raises ValueError, "ok" when it returns user_mapping.
load_user_mapping(raw) ==
    IF raw = <<>> THEN [NoResult EXCEPT !.status = "empty"]
    ELSE LET pass == ValidateLoop(raw, 1, <<>>, <<>>)
             user_ids == DictValues(pass.user_mapping)
             duplicates == Duplicates(user_ids)
             missing_ids == MissingIds(user_ids)
         IN  IF pass.errors # <<>>
             THEN [NoResult EXCEPT !.status = "invalid", !.errors = pass.errors]
             ELSE IF duplicates # {}
             THEN [NoResult EXCEPT
                     !.status = "duplicate",
                     !.duplicates =
                         {[uid |-> u,
                           students |-> [i \in 1..Len(Students(pass.user_mapping, u))
                                           |-> Students(pass.user_mapping, u)[i].k]]
                            : u \in duplicates}]
             ELSE [NoResult EXCEPT
                     !.status = "ok",
                     !.warned = (missing_ids # {}),
                     !.missing = missing_ids,
                     !.user_mapping = pass.user_mapping]

----------------------------------------------------------------------------
(* Raw mappings read from the YAML file *)

MaxEntries == 3

RawKeys == {<<"a">>, <<" ", "a">>, <<"a", " ">>, <<"b">>}

Infos ==
    {NotDict, UserId("absent", 0), UserId("null", 0), UserId("str", 2),
     UserId("float", 2), UserId("bool", 1), UserId("bool", 0)}
    \cup {UserId("int", v) : v \in {0, 1, 2, N, N + 1}}

RawEntries == [key : RawKeys, info : Infos]

\* The keys of a dict are pairwise distinct.
DistinctKeys(raw) == \A i, j \in 1..Len(raw) : raw[i].key = raw[j].key => i = j

\* i times "a": N pairwise distinct keys.
Rep(i) == [j \in 1..i |-> "a"]

\* Mappings of N - 1 or N entries that use 1, 2, ... in order, entry p replaced
\* by info x: the mappings that cover, or nearly cover, 1..N.
LargeMappings ==
    {[i \in 1..n |-> [key |-> Rep(i), info |-> IF i = p THEN x ELSE UserId("int", i)]]
       : n \in {N - 1, N}, p \in 0..N, x \in Infos}

----------------------------------------------------------------------------
(* CSV cells *)

\* A missing value (NaN) of a DataFrame; no text of the model equals it.
NA == <<"NaN">>

IsNA(x) == x = NA

\* Mutant of WriteCell: a blank text is written as the empty field too.
WriteCellBlankAsEmpty(x) == IF IsNA(x) \/ Strip(x) = <<>> THEN <<>> ELSE x

\* DataFrame.to_csv: a missing value is written as the empty field.
WriteCell(x) == IF IsNA(x) THEN <<>> ELSE x

\* pd.read_csv: the empty field is read as a missing value.
ReadCell(c) == IF c = <<>> THEN NA ELSE c

Digits == <<"0", "1", "2", "3", "4", "5", "6", "7", "8", "9">>

\* str(n) for n >= 0, as to_csv writes an integer.
RECURSIVE IntToText(_)
IntToText(n) ==
    IF n < 10 THEN <<Digits[n + 1]>>
    ELSE Append(IntToText(n \div 10), Digits[(n % 10) + 1])

DigitValue(c) == (CHOOSE i \in 1..Len(Digits) : Digits[i] = c) - 1

\* int(text), as read_csv parses a column of integers.
RECURSIVE TextToInt(_)
TextToInt(t) ==
    IF Len(t) = 1 THEN DigitValue(t[1])
    ELSE 10 * TextToInt(SubSeq(t, 1, Len(t) - 1)) + DigitValue(t[Len(t)])

----------------------------------------------------------------------------
(* add_user_id_and_sort *)

\* df['学籍番号'].astype(str).str.strip()
StripIds(rows) == [i \in 1..Len(rows) |-> [rows[i] EXCEPT !.sid = Strip(rows[i].sid)]]

\* df['学籍番号'].map(user_mapping): the user number, or NaN for an unknown key.
MapUser(rows, user_mapping) ==
    [i \in 1..Len(rows) |->
        IF DictHas(user_mapping, rows[i].sid)
        THEN [na |-> FALSE, v |-> DictGet(user_mapping, rows[i].sid).v]
        ELSE [na |-> TRUE, v |-> 0]]

\* Mutant of UnmappedRows: only the first row that was not mapped is reported.
UnmappedRowsFirstOnly(rows, users) ==
    LET idx == SelectSeq([i \in 1..Len(rows) |-> i], LAMBDA i : users[i].na)
    IN  IF idx = <<>> THEN <<>>
        ELSE <<[sid |-> rows[idx[1]].sid, name |-> rows[idx[1]].name]>>

\* df[df['ユーザー番号'].isna()], as the (student id, name) pairs printed.
UnmappedRows(rows, users) ==
    LET idx == SelectSeq([i \in 1..Len(rows) |-> i], LAMBDA i : users[i].na)
    IN  [j \in 1..Len(idx) |-> [sid |-> rows[idx[j]].sid, name |-> rows[idx[j]].name]]

\* The frame with the user number column added, as integers (astype(int)).
WithUser(rows, users) ==
    [i \in 1..Len(rows) |->
        [user |-> users[i].v, sid |-> rows[i].sid, name |-> rows[i].name,
         e1 |-> rows[i].e1, e2 |-> rows[i].e2, e3 |-> rows[i].e3]]

Perms(n) == {p \in [1..n -> 1..n] : \A i, j \in 1..n : p[i] = p[j] => i = j}

\* sort_values('ユーザー番号') with the default kind='quicksort', which is not a
\* stable sort: every ascending order of the rows is a possible result.
SortOrders(rows) ==
    {p \in Perms(Len(rows)) :
        \A i, j \in 1..Len(rows) : i < j => rows[p[i]].user <= rows[p[j]].user}

Reorder(rows, p) == [i \in 1..Len(rows) |-> rows[p[i]]]

\* df.to_csv(output_path, index=False)
ToCsv(rows) ==
    [i \in 1..Len(rows) |->
        [user |-> IntToText(rows[i].user), sid |-> WriteCell(rows[i].sid),
         name |-> WriteCell(rows[i].name), e1 |-> WriteCell(rows[i].e1),
         e2 |-> WriteCell(rows[i].e2), e3 |-> WriteCell(rows[i].e3)]]

----------------------------------------------------------------------------
(* get_user_responses *)

\* pd.read_csv(csv_path) of the joined file.
ReadCsv(lines) ==
    [i \in 1..Len(lines) |->
        [user |-> TextToInt(lines[i].user), sid |-> ReadCell(lines[i].sid),
         name |-> ReadCell(lines[i].name), e1 |-> ReadCell(lines[i].e1),
         e2 |-> ReadCell(lines[i].e2), e3 |-> ReadCell(lines[i].e3)]]

\* sorted(s) of a set of integers.
RECURSIVE Sorted(_)
Sorted(S) ==
    IF S = {} THEN <<>>
    ELSE LET m == CHOOSE x \in S : \A y \in S : x <= y
         IN  <<m>> \o Sorted(S \ {m})

\* Mutant of ValidUserIds: the column as it stands, neither unique nor sorted.
ValidUserIdsAsStored(rows) == [i \in 1..Len(rows) |-> rows[i].user]

\* sorted(df['ユーザー番号'].unique().tolist())
ValidUserIds(rows) == Sorted({rows[i].user : i \in 1..Len(rows)})

NoResponse == <<"(no response)">>

\* What is printed for an answer: the text, or the no-response line when the
\* value is missing or blank.
Shown(x) == IF IsNA(x) \/ Strip(x) = <<>> THEN NoResponse ELSE x

NoLookup ==
    [status |-> "none", uid |-> 0, valid |-> <<>>, responses |-> <<>>, shown |-> <<>>]

\* get_user_responses on the joined file: "nofile" (FileNotFoundError),
\* "notfound" with the valid user numbers, or "found" with the first matching
\* row's three answers as read and as printed.
get_user_responses(file, user_id) ==
    IF ~file.written THEN [NoLookup EXCEPT !.status = "nofile", !.uid = user_id]
    ELSE LET rows == ReadCsv(file.rows)
             user_data == SelectSeq(rows, LAMBDA r : r.user = user_id)
         IN  IF Len(user_data) = 0
             THEN [NoLookup EXCEPT !.status = "notfound", !.uid = user_id,
                                   !.valid = ValidUserIds(rows)]
             ELSE LET row == user_data[1]
                  IN  [NoLookup EXCEPT
                         !.status = "found", !.uid = user_id,
                         !.responses = <<row.e1, row.e2, row.e3>>,
                         !.shown = <<Shown(row.e1), Shown(row.e2), Shown(row.e3)>>]

----------------------------------------------------------------------------
(* Inputs of the join entry point *)

MaxRows == 3

\* The mappings main reads: at most MaxEntries entries over two keys.
MainEntries ==
    [key : {<<"a">>, <<" ", "b">>},
     info : {UserId("int", 1), UserId("int", 2), UserId("int", N), UserId("null", 0)}]

SurveyIds == {<<"a">>, <<" ", "a", " ">>, <<"b">>}

\* Name and the three answers of a survey row.
SurveyAnswers ==
    {[name |-> <<"a">>, e1 |-> <<"a">>, e2 |-> NA, e3 |-> <<" ">>],
     [name |-> <<"b">>, e1 |-> <<"b">>, e2 |-> <<"a", " ", "b">>, e3 |-> <<"a">>]}

SurveyRows ==
    {[sid |-> s, name |-> a.name, e1 |-> a.e1, e2 |-> a.e2, e3 |-> a.e3]
       : s \in SurveyIds, a \in SurveyAnswers}

\* The user numbers asked of the lookup.
QueryIds == {1, 2, 3, N}

----------------------------------------------------------------------------
(* generate_template *)

\* df[['学籍番号', '氏名']].drop_duplicates(): the first row of every distinct
\* (student id, name) pair, in table order.
DropDuplicates(rows) ==
    LET pairs == [i \in 1..Len(rows) |-> [sid |-> rows[i].sid, name |-> rows[i].name]]
        first == SelectSeq([i \in 1..Len(rows) |-> i],
                           LAMBDA i : \A j \in 1..(i - 1) : pairs[j] # pairs[i])
    IN  [k \in 1..Len(first) |-> pairs[first[k]]]

\* sort_values('学籍番号') with the default kind: every ascending order.
SortOrdersById(students) ==
    {p \in Perms(Len(students)) :
        \A i, j \in 1..Len(students) :
            i < j => ~StrLess(students[p[j]].sid, students[p[i]].sid)}

\* The loop over students.iterrows(): user_mapping[student_id] = {user_id: idx + 1,
\* name: name}, from row i on.
RECURSIVE AssignLoop(_, _, _)
AssignLoop(students, i, user_mapping) ==
    IF i > Len(students) THEN user_mapping
    ELSE AssignLoop(students, i + 1,
                    DictSet(user_mapping, students[i].sid,
                            [user_id |-> i, name |-> students[i].name]))

\* The dict generate_template dumps, for the order p the sort produced.
generate_template(rows, p) ==
    AssignLoop(Reorder(DropDuplicates(StripIds(rows)), p), 1, <<>>)

\* The survey tables the generator reads.
TemplateRows ==
    {[sid |-> s, name |-> a.name, e1 |-> a.e1, e2 |-> a.e2, e3 |-> a.e3]
       : s \in SurveyIds \cup {<<"a", "b">>}, a \in SurveyAnswers}

----------------------------------------------------------------------------
(* Entry points *)

NoFile == [written |-> FALSE, rows |-> <<>>]

Init ==
    /\ pc = "start"
    /\ data = <<>>
    /\ loaded = NoResult
    /\ table = <<>>
    /\ df = <<>>
    /\ unmapped = <<>>
    /\ outfile = NoFile
    /\ exitcode = -1
    /\ lookup = NoLookup
    /\ draft = <<>>

\* load_user_mapping called on its own on the mapping read from the file.
LoadUserMapping ==
    /\ pc = "start"
    /\ \/ \E m \in 0..MaxEntries : \E raw \in [1..m -> RawEntries] :
             /\ DistinctKeys(raw)
             /\ data' = raw
             /\ loaded' = load_user_mapping(raw)
       \/ \E raw \in LargeMappings :
             /\ data' = raw
             /\ loaded' = load_user_mapping(raw)
    /\ pc' = "loaded"
    /\ UNCHANGED <<table, df, unmapped, outfile, exitcode, lookup, draft>>

NextValidate == LoadUserMapping

SpecValidate == Init /\ [][NextValidate]_vars

\* Mutant of MainLoad: a failed load does not end the run.
MainLoadIgnoresFailure ==
    /\ pc = "start"
    /\ \E m \in 0..MaxEntries : \E raw \in [1..m -> MainEntries] :
          /\ DistinctKeys(raw)
          /\ data' = raw
          /\ loaded' = load_user_mapping(raw)
    /\ pc' = "mapped"
    /\ UNCHANGED <<table, df, unmapped, outfile, exitcode, lookup, draft>>

\* main: user_mapping = load_user_mapping(yaml_path); a ValueError is caught
\* and the process exits with status 1.
MainLoad ==
    /\ pc = "start"
    /\ \E m \in 0..MaxEntries : \E raw \in [1..m -> MainEntries] :
          /\ DistinctKeys(raw)
          /\ data' = raw
          /\ loaded' = load_user_mapping(raw)
          /\ IF load_user_mapping(raw).status = "ok"
             THEN pc' = "mapped" /\ exitcode' = exitcode
             ELSE pc' = "exited" /\ exitcode' = 1
    /\ UNCHANGED <<table, df, unmapped, outfile, lookup, draft>>

\* add_user_id_and_sort up to the check of the rows that were not mapped; the
\* ValueError raised for them is caught by main, which exits with status 1.
MainResolve ==
    /\ pc = "mapped"
    /\ \E m \in 0..MaxRows : \E rows \in [1..m -> SurveyRows] :
          LET stripped == StripIds(rows)
              users == MapUser(stripped, loaded.user_mapping)
              missing == UnmappedRows(stripped, users)
          IN  /\ table' = rows
              /\ unmapped' = missing
              /\ IF Len(missing) > 0
                 THEN pc' = "exited" /\ exitcode' = 1 /\ df' = df
                 ELSE pc' = "resolved" /\ exitcode' = exitcode
                      /\ df' = WithUser(stripped, users)
    /\ UNCHANGED <<data, loaded, outfile, lookup, draft>>

\* add_user_id_and_sort from the sort to to_csv.
MainSortWrite ==
    /\ pc = "resolved"
    /\ \E p \in SortOrders(df) :
          /\ df' = Reorder(df, p)
          /\ outfile' = [written |-> TRUE, rows |-> ToCsv(Reorder(df, p))]
    /\ pc' = "written"
    /\ UNCHANGED <<data, loaded, table, unmapped, exitcode, lookup, draft>>

\* main: sys.exit(0) after add_user_id_and_sort returned.
MainExit ==
    /\ pc = "written"
    /\ exitcode' = 0
    /\ pc' = "exited"
    /\ UNCHANGED <<data, loaded, table, df, unmapped, outfile, lookup, draft>>

\* query_responses.py run after the join entry point has ended.
Lookup ==
    /\ pc = "exited"
    /\ \E user_id \in QueryIds : lookup' = get_user_responses(outfile, user_id)
    /\ UNCHANGED <<pc, data, loaded, table, df, unmapped, outfile, exitcode, draft>>

\* generate_template.py: read the table, write the draft mapping.
GenerateTemplate ==
    /\ pc = "start"
    /\ \E m \in 0..MaxRows : \E rows \in [1..m -> TemplateRows] :
          \E p \in SortOrdersById(DropDuplicates(StripIds(rows))) :
             /\ table' = rows
             /\ draft' = generate_template(rows, p)
    /\ pc' = "generated"
    /\ UNCHANGED <<data, loaded, df, unmapped, outfile, exitcode, lookup>>

NextGenerate == GenerateTemplate

SpecGenerate == Init /\ [][NextGenerate]_vars

Next == MainLoad \/ MainResolve \/ MainSortWrite \/ MainExit \/ Lookup

Spec == Init /\ [][Next]_vars

----------------------------------------------------------------------------
(* Vocabulary of the properties *)

\* An entry the specification rejects: the attribute bag is not a record, the
\* identifier is absent or null, is not of integer type, or is outside 1..N.
Defective(e) ==
    \/ ~e.info.dict
    \/ e.info.ty \in {"absent", "null"}
    \/ e.info.ty # "int"
    \/ e.info.v < 1
    \/ e.info.v > N

\* The reason the specification gives for rejecting a defective entry.
DefectOf(e) ==
    IF ~e.info.dict THEN "bad format"
    ELSE IF e.info.ty \in {"absent", "null"} THEN "user_id not set"
    ELSE IF e.info.ty # "int" THEN "user_id not an integer"
    ELSE "user_id out of range"

\* No leading and no trailing whitespace.
IsTrimmed(s) == s = <<>> \/ (s[1] # " " /\ s[Len(s)] # " ")

\* The raw mapping is not empty, every entry is well-formed.
AllWellFormed == data # <<>> /\ \A i \in 1..Len(data) : ~Defective(data[i])

\* Two entries of the raw mapping carry the same numeric identifier.
SomeIdShared ==
    \E i, j \in 1..Len(data) : i # j /\ data[i].info.v = data[j].info.v

\* The numeric identifiers the raw mapping uses.
UsedIds == {data[i].info.v : i \in 1..Len(data)}

(* C1..C4 are stated for load_user_mapping run on its own (SpecValidate). *)

\* C1: every defective entry of a raw mapping is reported, in order, by its
\* trimmed key and with its reason, the load fails as invalid exactly when some
\* entry is defective, and the number of reported defects is the number of
\* defective entries.
C1_EveryDefectReported ==
    (pc = "loaded" /\ data # <<>>) =>
        LET bad == SelectSeq(data, Defective)
        IN  IF bad = <<>> THEN loaded.status # "invalid"
            ELSE /\ loaded.status = "invalid"
                 /\ Len(loaded.errors) = Len(bad)
                 /\ \A i \in 1..Len(bad) :
                       /\ loaded.errors[i].key = Strip(bad[i].key)
                       /\ loaded.errors[i].reason = DefectOf(bad[i])

\* C1 apart from the boolean identifiers: it holds of every raw mapping in
\* which no identifier is a boolean.
C1_HoldsWithoutBooleans ==
    (\A i \in 1..Len(data) : data[i].info.ty # "bool") => C1_EveryDefectReported

\* C2: a raw mapping of well-formed entries in which two raw keys carry the
\* same numeric identifier is refused with a duplicate error that names every
\* shared identifier with all the keys that carry it; no mapping is returned.
C2_SharedIdRefused ==
    (pc = "loaded" /\ AllWellFormed /\ SomeIdShared) =>
        /\ loaded.status = "duplicate"
        /\ \A i, j \in 1..Len(data) :
              (i # j /\ data[i].info.v = data[j].info.v) =>
                  \E d \in loaded.duplicates :
                      /\ d.uid = data[i].info.v
                      /\ {d.students[k] : k \in 1..Len(d.students)}
                           = {Strip(data[m].key) :
                                m \in {n \in 1..Len(data) : data[n].info.v = d.uid}}

\* C2 apart from keys that are equal once trimmed.
C2_HoldsForDistinctTrimmedKeys ==
    (\A i, j \in 1..Len(data) : Strip(data[i].key) = Strip(data[j].key) => i = j)
        => C2_SharedIdRefused

\* C3: a returned mapping has trimmed keys, integer values in 1..N and no
\* value twice; and a raw mapping of well-formed entries with pairwise
\* distinct identifiers is returned whatever part of 1..N it leaves unused.
C3_ReturnedMappingValid ==
    pc = "loaded" =>
        /\ loaded.status = "ok" =>
              \A i \in 1..Len(loaded.user_mapping) :
                  /\ IsTrimmed(loaded.user_mapping[i].k)
                  /\ loaded.user_mapping[i].val.ty = "int"
                  /\ loaded.user_mapping[i].val.v \in 1..N
                  /\ \A j \in 1..Len(loaded.user_mapping) :
                        loaded.user_mapping[i].val.v = loaded.user_mapping[j].val.v
                            => i = j
        /\ (AllWellFormed /\ ~SomeIdShared) => loaded.status = "ok"

\* C3 apart from the type of the values: numerically every returned value is
\* in 1..N.
C3_HoldsNumerically ==
    pc = "loaded" =>
        /\ loaded.status = "ok" =>
              \A i \in 1..Len(loaded.user_mapping) :
                  /\ IsTrimmed(loaded.user_mapping[i].k)
                  /\ loaded.user_mapping[i].val.v \in 1..N
                  /\ \A j \in 1..Len(loaded.user_mapping) :
                        loaded.user_mapping[i].val.v = loaded.user_mapping[j].val.v
                            => i = j
        /\ (AllWellFormed /\ ~SomeIdShared) => loaded.status = "ok"

\* C4: a raw mapping of well-formed entries with pairwise distinct identifiers
\* is returned with as many entries as it has, and the coverage warning is
\* given exactly when the identifiers used are not all of 1..N, listing the
\* unused ones.
C4_SameSizeAndCoverage ==
    (pc = "loaded" /\ AllWellFormed /\ ~SomeIdShared) =>
        /\ loaded.status = "ok"
        /\ Len(loaded.user_mapping) = Len(data)
        /\ loaded.warned <=> (UsedIds # 1..N)
        /\ loaded.warned => loaded.missing = (1..N) \ UsedIds

\* C4 apart from keys that are equal once trimmed.
C4_HoldsForDistinctTrimmedKeys ==
    (\A i, j \in 1..Len(data) : Strip(data[i].key) = Strip(data[j].key) => i = j)
        => C4_SameSizeAndCoverage

\* Reachable: a mapping that uses all of 1..N was returned without a warning.
FullCoverageReached ==
    pc = "loaded" /\ loaded.status = "ok" /\ ~loaded.warned /\ Len(data) = N

(* C5..C9 are stated for the join entry point followed by lookups (Spec). *)

\* add_user_id_and_sort has read the table and looked its rows up.
Resolved == pc \in {"resolved", "written"} \/ (pc = "exited" /\ loaded.status = "ok")

\* The numeric identifier of table row i: that of its trimmed identifier.
IdOfRow(i) == DictGet(loaded.user_mapping, Strip(table[i].sid)).v

RowIsMapped(i) == Strip(table[i].sid) \in DictKeys(loaded.user_mapping)

\* The table rows whose trimmed identifier is no key of the mapping.
AbsentRows == SelectSeq([i \in 1..Len(table) |-> i], LAMBDA i : ~RowIsMapped(i))

\* C5: the join compares trimmed identifiers with the mapping keys; when some
\* rows are absent from the mapping it fails, reports every one of them by
\* identifier and name and writes nothing; when none is, it succeeds.
C5_EveryUnmappedRowReported ==
    Resolved =>
        /\ Len(unmapped) = Len(AbsentRows)
        /\ \A k \in 1..Len(AbsentRows) :
              /\ unmapped[k].sid = Strip(table[AbsentRows[k]].sid)
              /\ unmapped[k].name = table[AbsentRows[k]].name
        /\ AbsentRows # <<>> => (pc = "exited" /\ exitcode = 1 /\ ~outfile.written)
        /\ AbsentRows = <<>> => (pc = "exited" => (exitcode = 0 /\ outfile.written))

\* C5 witness: a failed join that reported two rows, in a table where a row
\* written with surrounding blanks was found in the mapping.
C5_TwoRowsReported ==
    /\ pc = "exited" /\ exitcode = 1 /\ Len(unmapped) = 2
    /\ \E i \in 1..Len(table) : table[i].sid # Strip(table[i].sid) /\ RowIsMapped(i)

\* The joined rows in table order: every input row with its trimmed
\* identifier and its numeric identifier.
JoinedInput ==
    [i \in 1..Len(table) |->
        [user |-> IdOfRow(i), sid |-> Strip(table[i].sid), name |-> table[i].name,
         e1 |-> table[i].e1, e2 |-> table[i].e2, e3 |-> table[i].e3]]

\* C6: the written output is the input rows, each with its numeric
\* identifier, ascending by it, rows of equal identifier in their input order.
C6_SortedAndStable ==
    outfile.written =>
        \E p \in Perms(Len(table)) :
            /\ df = Reorder(JoinedInput, p)
            /\ outfile.rows = ToCsv(df)
            /\ \A i, j \in 1..Len(table) :
                  i < j => \/ df[i].user < df[j].user
                           \/ (df[i].user = df[j].user /\ p[i] < p[j])

\* C6 apart from the order of rows of equal identifier.
C6_HoldsUpToTies ==
    outfile.written =>
        \E p \in Perms(Len(table)) :
            /\ df = Reorder(JoinedInput, p)
            /\ outfile.rows = ToCsv(df)
            /\ \A i, j \in 1..Len(table) : i < j => df[i].user <= df[j].user

\* The lookup ran on a joined file that exists.
LookedUp == lookup.status \in {"found", "notfound"}

\* The table rows whose numeric identifier is uid.
RowsOf(uid) == {i \in 1..Len(table) : RowIsMapped(i) /\ IdOfRow(i) = uid}

Answers(i) == <<table[i].e1, table[i].e2, table[i].e3>>

IsBlank(x) == IsNA(x) \/ \A k \in 1..Len(x) : x[k] = " "

\* C7 as stated: after a successful join, the lookup of every numeric
\* identifier present in the mapping succeeds and returns the three answers of
\* a table row of that identifier, unchanged.
C7_EveryMappedIdLooksUp ==
    (LookedUp /\ \E k \in 1..Len(loaded.user_mapping) :
                    loaded.user_mapping[k].val.v = lookup.uid) =>
        /\ lookup.status = "found"
        /\ \E i \in RowsOf(lookup.uid) : lookup.responses = Answers(i)

\* C7 amended: after a successful join, the lookup of every numeric
\* identifier that the mapping gives to at least one table row succeeds and
\* returns the three answers of a table row of that identifier, unchanged,
\* printing the no-response line for a missing or blank answer.
C7_EveryJoinedIdLooksUp ==
    (LookedUp /\ RowsOf(lookup.uid) # {}) =>
        /\ lookup.status = "found"
        /\ \E i \in RowsOf(lookup.uid) :
              /\ lookup.responses = Answers(i)
              /\ \A f \in 1..3 :
                    lookup.shown[f] =
                        IF IsBlank(Answers(i)[f]) THEN NoResponse ELSE Answers(i)[f]

\* C7 witness: a lookup that found a row with a missing and a blank answer in a
\* joined table of several rows.
C7_FoundWithBlankAnswers ==
    /\ lookup.status = "found" /\ Len(table) > 1
    /\ IsNA(lookup.responses[2]) /\ lookup.responses[3] = <<" ">>

\* C8: the lookup reports not-found exactly when no joined row has the
\* identifier asked for, then lists the identifiers present, each once,
\* ascending; and a lookup leaves the joined file as it is.
C8_NotFoundListsValidIds ==
    /\ [](LookedUp =>
            /\ lookup.status = "notfound"
                 <=> (\A i \in 1..Len(df) : df[i].user # lookup.uid)
            /\ lookup.status = "notfound" =>
                  /\ {lookup.valid[k] : k \in 1..Len(lookup.valid)}
                       = {df[i].user : i \in 1..Len(df)}
                  /\ \A k \in 1..(Len(lookup.valid) - 1) :
                        lookup.valid[k] < lookup.valid[k + 1])
    /\ [][lookup' # lookup => outfile' = outfile]_vars

\* C8 witness: not found in a table where two rows share one of two
\* identifiers.
C8_NotFoundAmongRepeatedIds ==
    lookup.status = "notfound" /\ Len(lookup.valid) = 2 /\ Len(df) = 3

\* C9: the output is written only once every entry of the mapping has passed
\* and every table row is resolved; a run that detects a validation,
\* duplicate or unmapped-record condition writes nothing and exits nonzero;
\* status 0 is given only after the write; a coverage gap does not stop it.
C9_WriteOnlyAfterValidation ==
    /\ outfile.written =>
          /\ pc \in {"written", "exited"}
          /\ loaded.status = "ok"
          /\ \A i \in 1..Len(data) : ~Defective(data[i])
          /\ ~SomeIdShared
          /\ \A i \in 1..Len(table) : RowIsMapped(i)
    /\ (loaded.status \in {"empty", "invalid", "duplicate"} \/ unmapped # <<>>) =>
          (~outfile.written /\ pc = "exited" /\ exitcode = 1)
    /\ exitcode = 0 => outfile.written
    /\ exitcode # -1 <=> pc = "exited"
    /\ (pc = "exited" /\ loaded.status = "ok" /\ unmapped = <<>>) =>
          (outfile.written /\ exitcode = 0)

\* C9 witness: a run whose mapping left identifiers unused and that wrote the
\* output of a table of several rows and exited with status 0.
C9_WrittenDespiteGap ==
    pc = "exited" /\ exitcode = 0 /\ loaded.warned /\ outfile.written /\ Len(table) > 1

(* C10 is stated for the template generator (SpecGenerate). *)

\* The distinct trimmed identifiers of the table.
TableIds == {Strip(table[i].sid) : i \in 1..Len(table)}

\* C10: the draft has one entry per distinct trimmed identifier, numbered
\* 1..k without gap or repeat, increasing with the order of the identifiers.
C10_SequentialIds ==
    pc = "generated" =>
        /\ Len(draft) = Cardinality(TableIds)
        /\ DictKeys(draft) = TableIds
        /\ {draft[i].val.user_id : i \in 1..Len(draft)} = 1..Cardinality(TableIds)
        /\ \A i, j \in 1..Len(draft) :
              StrLess(draft[i].k, draft[j].k) => draft[i].val.user_id < draft[j].val.user_id

\* C10 apart from identifiers that come with several names.
C10_HoldsForOneNamePerId ==
    (\A i, j \in 1..Len(table) :
        Strip(table[i].sid) = Strip(table[j].sid) => table[i].name = table[j].name)
        => C10_SequentialIds

====
